---- MODULE Spec2Model ----
(***************************************************************************)
(* Model of the aggregation core of notion-card-widget:                    *)
(*   - getNotionAggregatedValue, fan-out resolver   (src/index.js 72-132)  *)
(*   - getNotionAggregatedValue, legacy resolver    (src/unnamed/part_000  *)
(*     70-121), which queries the database directly                        *)
(* A resolver call is a process that stops at every await; the remote      *)
(* service answers each request with any response of a bounded set.        *)
(***************************************************************************)
EXTENDS Integers, Sequences, FiniteSets, TLC

\* ------------------------------------------------------------------ bounds
MaxSources == 2      \* longest data_sources list the remote returns
MaxRows == 3         \* rows the remote returns in total during one call
MaxPageRows == 2     \* rows of the single response of the page-level spec
MaxLen == 3          \* longest value sequence of the reduction spec
MaxVal == 6          \* values of the reduction spec are -MaxNeg..MaxVal
MaxNeg == 2

\* --------------------------------------------------------- program constants
PAGE_SIZE == 100
DEFAULT_PROPERTY == "WidgetValue"

\* ------------------------------------------------------------- JS values
\* A JavaScript value the resolver handles: a number (kept as the reduced
\* fraction n/d, so that a quotient is exact), null, undefined or NaN.
Abs(x) == IF x < 0 THEN -x ELSE x

RECURSIVE GCD(_, _)
GCD(a, b) == IF b = 0 THEN a ELSE GCD(b, a % b)

Num(x) == [t |-> "number", n |-> x, d |-> 1]
NULL == [t |-> "null", n |-> 0, d |-> 1]
UNDEFINED == [t |-> "undefined", n |-> 0, d |-> 1]
NAN == [t |-> "NaN", n |-> 0, d |-> 1]
INFINITY == [t |-> "Infinity", n |-> 1, d |-> 1]
NEG_INFINITY == [t |-> "Infinity", n |-> -1, d |-> 1]
\* no value yet: the call has not returned
PENDING == [t |-> "pending", n |-> 0, d |-> 1]

\* x / y for an integer x and a positive integer y, as a reduced fraction
Quot(x, y) ==
  LET g == GCD(Abs(x), y)
  IN [t |-> "number", n |-> x \div g, d |-> y \div g]

\* a is falsy: "" stands for an absent (null, undefined or empty) string
Falsy(s) == s = ""

\* ------------------------------------------------------------- pages (rows)
\* A page of a query response.  properties holds at most one property, under
\* the name key; inner is the type of the formula / rollup result object
\* ("missing" when the object itself is absent).
PNumber(key, v) ==
  [hasProps |-> TRUE, key |-> key, type |-> "number", inner |-> "none", num |-> v]
PFormula(key, inner, v) ==
  [hasProps |-> TRUE, key |-> key, type |-> "formula", inner |-> inner, num |-> v]
PRollup(key, inner, v) ==
  [hasProps |-> TRUE, key |-> key, type |-> "rollup", inner |-> inner, num |-> v]
POther(key) ==
  [hasProps |-> TRUE, key |-> key, type |-> "title", inner |-> "none", num |-> NULL]
\* properties is the empty map
PEmpty ==
  [hasProps |-> TRUE, key |-> "", type |-> "none", inner |-> "none", num |-> NULL]
\* the page has no properties field at all
PNoProps ==
  [hasProps |-> FALSE, key |-> "", type |-> "none", inner |-> "none", num |-> NULL]

\* page.properties[targetProp] is a property object (truthy)
HasProp(page, targetProp) == page.hasProps /\ page.key = targetProp

\* --------------------------------------------------- extraction, fan-out
\* Reading the page raises a TypeError (index.js 105, 108): page.properties is
\* undefined, or the property is a formula without its formula object.
FanoutThrows(page, targetProp) ==
  \/ ~page.hasProps
  \/ /\ HasProp(page, targetProp)
     /\ page.type = "formula"
     /\ page.inner = "missing"

\* faulty variant of FanoutNum: an empty number counts as 0 (num = prop.number || 0)
FanoutNumNullAsZero(page, targetProp) ==
  IF ~HasProp(page, targetProp) THEN NULL
  ELSE IF page.type = "formula" /\ page.inner = "number"
       THEN (IF page.num = NULL THEN Num(0) ELSE page.num)
  ELSE IF page.type = "number"
       THEN (IF page.num = NULL THEN Num(0) ELSE page.num)
  ELSE NULL

\* num after index.js 105-113
FanoutNum(page, targetProp) ==
  IF ~HasProp(page, targetProp) THEN NULL
  ELSE IF page.type = "formula" /\ page.inner = "number" THEN page.num
  ELSE IF page.type = "number" THEN page.num
  ELSE NULL

\* faulty variant of Push: the value is put in front (unshift)
PushFront(vals, num) == IF num # NULL THEN <<num>> \o vals ELSE vals

\* if (num !== null) values.push(num)
Push(vals, num) == IF num # NULL THEN Append(vals, num) ELSE vals

\* for (const page of response.data.results) { ... }: vals when the loop ends,
\* normally or by the first exception (which the caller's catch swallows)
RECURSIVE FanoutPages(_, _, _)
FanoutPages(pages, targetProp, vals) ==
  IF pages = <<>> THEN vals
  ELSE IF FanoutThrows(Head(pages), targetProp) THEN vals
  ELSE FanoutPages(Tail(pages), targetProp,
                   Push(vals, FanoutNum(Head(pages), targetProp)))

\* ---------------------------------------------------- extraction, legacy
\* part_000 89: if (!page.properties || !page.properties[targetProp]) continue
LegacySkips(page, targetProp) == ~HasProp(page, targetProp)

\* part_000 94, 98: a formula / rollup property without its result object
LegacyThrows(page, targetProp) ==
  /\ HasProp(page, targetProp)
  /\ page.type \in {"formula", "rollup"}
  /\ page.inner = "missing"

\* num after part_000 91-100
LegacyNum(page, targetProp) ==
  IF page.type = "formula" /\ page.inner = "number" THEN page.num
  ELSE IF page.type = "number" THEN page.num
  ELSE IF page.type = "rollup" /\ page.inner = "number" THEN page.num
  ELSE NULL

RECURSIVE LegacyPages(_, _, _)
LegacyPages(pages, targetProp, vals) ==
  IF pages = <<>> THEN vals
  ELSE IF LegacySkips(Head(pages), targetProp)
       THEN LegacyPages(Tail(pages), targetProp, vals)
  ELSE IF LegacyThrows(Head(pages), targetProp) THEN vals
  ELSE LegacyPages(Tail(pages), targetProp,
                   Push(vals, LegacyNum(Head(pages), targetProp)))

\* ---------------------------------------------------------------- reduction
\* a + b of JavaScript: undefined or NaN on either side gives NaN
JsAdd(a, b) ==
  IF a.t = "number" /\ b.t = "number" THEN Num(a.n + b.n) ELSE NAN

\* values.reduce((a, b) => a + b, acc)
RECURSIVE ReduceAdd(_, _)
ReduceAdd(vals, acc) ==
  IF vals = <<>> THEN acc
  ELSE ReduceAdd(Tail(vals), JsAdd(acc, Head(vals)))

\* faulty variant of JsDiv: the quotient is truncated to an integer
JsDivTruncating(a, len) == IF a.t = "number" THEN Num(a.n \div len) ELSE NAN

\* a / len, len > 0
JsDiv(a, len) == IF a.t = "number" THEN Quot(a.n, len) ELSE NAN

AllNumbers(vals) == \A i \in 1..Len(vals) : vals[i].t = "number"

\* Math.min(...vals), Math.max(...vals)
MathMin(vals) ==
  IF vals = <<>> THEN INFINITY
  ELSE IF ~AllNumbers(vals) THEN NAN
  ELSE Num(CHOOSE m \in {vals[i].n : i \in 1..Len(vals)} :
             \A i \in 1..Len(vals) : m <= vals[i].n)

MathMax(vals) ==
  IF vals = <<>> THEN NEG_INFINITY
  ELSE IF ~AllNumbers(vals) THEN NAN
  ELSE Num(CHOOSE m \in {vals[i].n : i \in 1..Len(vals)} :
             \A i \in 1..Len(vals) : m >= vals[i].n)

\* const calc = calculationType || "sum"
CalcOf(calculationType) ==
  IF Falsy(calculationType) THEN "sum" ELSE calculationType

\* faulty variant of TargetProp: an absent property name is used as it is
TargetPropNoDefault(propName) == propName

\* const targetProp = propertyName || DEFAULT_PROPERTY
TargetProp(propertyName) ==
  IF Falsy(propertyName) THEN DEFAULT_PROPERTY ELSE propertyName

\* faulty variant of Reduce: no values is reported as unavailable
ReduceNullWhenEmpty(calc, vals) ==
  IF Len(vals) = 0 THEN NULL
  ELSE IF calc = "sum" THEN ReduceAdd(vals, Num(0))
  ELSE IF calc = "average" THEN JsDiv(ReduceAdd(vals, Num(0)), Len(vals))
  ELSE IF calc = "count" THEN Num(Len(vals))
  ELSE IF calc = "min" THEN MathMin(vals)
  ELSE IF calc = "max" THEN MathMax(vals)
  ELSE Num(0)

\* faulty variant of Reduce: the test values.length === 0 is missing
ReduceNoEmptyCheck(calc, vals) ==
  IF calc = "sum" THEN ReduceAdd(vals, Num(0))
  ELSE IF calc = "average"
       THEN (IF Len(vals) = 0 THEN NAN
             ELSE JsDiv(ReduceAdd(vals, Num(0)), Len(vals)))
  ELSE IF calc = "count" THEN Num(Len(vals))
  ELSE IF calc = "min" THEN MathMin(vals)
  ELSE IF calc = "max" THEN MathMax(vals)
  ELSE Num(0)

\* faulty variant of Reduce: an unknown calculation falls back to the sum
ReduceDefaultsToSum(calc, vals) ==
  IF Len(vals) = 0 THEN Num(0)
  ELSE IF calc = "average" THEN JsDiv(ReduceAdd(vals, Num(0)), Len(vals))
  ELSE IF calc = "count" THEN Num(Len(vals))
  ELSE IF calc = "min" THEN MathMin(vals)
  ELSE IF calc = "max" THEN MathMax(vals)
  ELSE ReduceAdd(vals, Num(0))

\* index.js 119-127 (part_000 108-116): the value returned for calc and vals
Reduce(calc, vals) ==
  IF Len(vals) = 0 THEN Num(0)
  ELSE IF calc = "sum" THEN ReduceAdd(vals, Num(0))
  ELSE IF calc = "average" THEN JsDiv(ReduceAdd(vals, Num(0)), Len(vals))
  ELSE IF calc = "count" THEN Num(Len(vals))
  ELSE IF calc = "min" THEN MathMin(vals)
  ELSE IF calc = "max" THEN MathMax(vals)
  ELSE Num(0)

\* ------------------------------------------------------------------- state
VARIABLES
  pc,               \* where the call stands: "idle", "meta" (awaiting the GET),
                    \* "query" (awaiting a sub-source POST), "lquery" (awaiting
                    \* the legacy POST), "page", "reduce" (pure-function
                    \* specifications), "done"
  ver,              \* which resolver runs: "fanout" or "legacy"
  accessToken, databaseId, propertyName, calculationType,   \* the arguments
  dataSources,      \* let dataSources
  idx,              \* position of the for-of loop in dataSources
  values,           \* let values
  result,           \* the value returned, PENDING until then
  requests,         \* every request the call has sent so far, in order
  responses,        \* the outcome of every request answered so far, in order
  journal,          \* the calls that have returned: arguments, responses, result
  epc,              \* where the embed request stands: "idle", "resolving", "sent"
  widget,           \* const widget of the embed request
  user,             \* const user of the embed request
  finalNumber,      \* let finalNumber of the embed request
  displayString,    \* what the embed request sent: the page and the value on it
  calls,            \* the resolver calls of the process that run side by side
  frames,           \* the let bindings of each of these calls
  widgets,          \* the rows of table widgets
  users,            \* the rows of table users
  adds              \* the POST /add requests being served

\* the database and the dashboard requests
tables == <<widgets, users, adds>>

\* the state of the process beyond one resolver call and one embed request
app == <<calls, frames, tables>>

\* the state outside the resolver call
ext == <<journal, epc, widget, user, finalNumber, displayString, app>>

vars == <<pc, ver, accessToken, databaseId, propertyName, calculationType,
          dataSources, idx, values, result, requests, responses, ext>>

\* ----------------------------------------------------------------- requests
\* axios.get(`.../databases/${databaseId}`, { headers })
MetaRequest(db, token) ==
  [method |-> "GET", path |-> "databases", id |-> db,
   bearer |-> token, page_size |-> 0]

\* faulty variant of QueryRequest: the query is sent without the headers
QueryRequestWithoutBearer(src, token) ==
  [method |-> "POST", path |-> "data_sources/query", id |-> src,
   bearer |-> "", page_size |-> PAGE_SIZE]

\* axios.post(`.../data_sources/${source.id}/query`, { page_size: 100 }, ...)
QueryRequest(src, token) ==
  [method |-> "POST", path |-> "data_sources/query", id |-> src,
   bearer |-> token, page_size |-> PAGE_SIZE]

\* axios.post(`.../databases/${databaseId}/query`, { page_size: 100 }, ...)
LegacyQueryRequest(db, token) ==
  [method |-> "POST", path |-> "databases/query", id |-> db,
   bearer |-> token, page_size |-> PAGE_SIZE]

\* ---------------------------------------------------------------- responses
\* Outcome of the metadata GET:
\*   "fail"    the request rejects (network, auth, 4xx, 5xx)
\*   "nodata"  it resolves without a body: dbResponse.data.data_sources raises
\*   "absent"  body without (or with a falsy) data_sources
\*   "list"    data_sources is the array sources (possibly empty)
\*   "notlist" data_sources is truthy and not iterable
MetaResponse(kind, sources) == [kind |-> kind, sources |-> sources, pages |-> <<>>]

\* Outcome of a query POST:
\*   "fail"      the request rejects
\*   "noresults" it resolves without results: iterating it raises
\*   "ok"        results is the array pages
QueryResponse(kind, pages) == [kind |-> kind, sources |-> <<>>, pages |-> pages]

\* ------------------------------------------------------------------ domains
DbIds == {0}
\* sub-source ids are 1, 2, ...; a data_sources list is <<1, ..., k>>
SourceLists == {[i \in 1..k |-> i] : k \in 0..MaxSources}

Tokens == {"", "secret"}
PropertyNames == {"", "Amount"}
Calculations == {"", "sum", "average", "count", "min", "max", "median"}
Versions == {"fanout", "legacy"}

MetaResponses ==
  {MetaResponse(k, <<>>) : k \in {"fail", "nodata", "absent", "notlist"}}
    \cup {MetaResponse("list", l) : l \in SourceLists}

\* the pages the remote may return during a call
CallPages ==
  {PNumber(DEFAULT_PROPERTY, Num(2)), PNumber(DEFAULT_PROPERTY, Num(-1)),
   PNumber(DEFAULT_PROPERTY, NULL), PNumber("Amount", Num(3)),
   PRollup(DEFAULT_PROPERTY, "number", Num(5)),
   PFormula(DEFAULT_PROPERTY, "missing", NULL)}

SeqsUpTo(S, n) == UNION {[1..k -> S] : k \in 0..n}

RECURSIVE RowsOf(_)
RowsOf(resps) ==
  IF resps = <<>> THEN 0 ELSE Len(Head(resps).pages) + RowsOf(Tail(resps))

\* the responses a query may get when resps were received before
QueryResponses(resps) ==
  {QueryResponse("fail", <<>>), QueryResponse("noresults", <<>>)}
    \cup {QueryResponse("ok", p) : p \in SeqsUpTo(CallPages, MaxRows - RowsOf(resps))}

\* ---------------------------------------------------- the call, step by step
\* faulty variant of NoTokenResult: a missing token is reported as unavailable
NoTokenResultUnavailable == NULL

\* index.js 74, part_000 72: if (!accessToken) return 0
NoTokenResult == Num(0)

\* faulty variant of MetaErrorResult: a failed lookup is reported as 0
MetaErrorResultZero == Num(0)

\* index.js 92-95: catch (e) { ...; return null }
MetaErrorResult == NULL

\* index.js 128-131, part_000 117-120: the outer catch
CriticalErrorResult == NULL

\* index.js 90-91
ExpandSources(resp, db) ==
  IF resp.kind = "list" THEN resp.sources ELSE <<db>>

\* faulty variant of AfterSource: a rejected request is counted as a row of 0
AfterSourceCountsFailure(resp, targetProp, vals) ==
  IF resp.kind = "ok" THEN FanoutPages(resp.pages, targetProp, vals)
  ELSE Push(vals, Num(0))

\* index.js 99-117: the values after the response of one sub-source; a rejected
\* request or an exception while reading leaves what was pushed before
AfterSource(resp, targetProp, vals) ==
  IF resp.kind = "ok" THEN FanoutPages(resp.pages, targetProp, vals) ELSE vals

\* part_000 84-106
AfterLegacyQuery(resp, targetProp, vals) ==
  IF resp.kind = "ok" THEN LegacyPages(resp.pages, targetProp, vals) ELSE vals

\* faulty variant of LoopContinues: a rejected query ends the loop
LoopStopsOnFailure(resp, i, n) == resp.kind # "fail" /\ i < n

\* index.js 99, 116-117: the for-of loop goes on to the next sub-source
\* whatever happened to sub-source i of n
LoopContinues(resp, i, n) == i < n

\* faulty variant of LookupAborts: the loop is entered after a failed lookup
LookupNeverAborts(resp) == FALSE

\* index.js 85-95: the GET rejected, or its body has no data to read
\* data_sources from: the lookup's own catch returns
LookupAborts(resp) == resp.kind \in {"fail", "nodata"}

\* faulty variant of OuterCatches: the body is not wrapped
NothingCatches == FALSE

\* index.js 73, 128: the whole body of the function is inside try { } catch
OuterCatches == TRUE

\* faulty variant of FreshValues: the array outlives the call
StaleValues(old) == old

\* index.js 97, part_000 82: let values = []
FreshValues(old) == <<>>

\* faulty variant of IssueOnLoopEntry: every sub-source is queried at once
IssueAllAtOnce(ds, token) == [i \in 1..Len(ds) |-> QueryRequest(ds[i], token)]

\* index.js 99-102: entering the loop sends the query of the first sub-source
\* and awaits it
IssueOnLoopEntry(ds, token) == <<QueryRequest(ds[1], token)>>

\* faulty variant of NextIndex: a rejected query is sent again
NextIndexRetries(resp, i) == IF resp.kind = "fail" THEN i ELSE i + 1

\* faulty variant of NextIndex: a response that signals more rows is followed
NextIndexFollowsCursor(resp, i) ==
  IF resp.kind = "ok" /\ resp.has_more THEN i ELSE i + 1

\* index.js 99: for (const source of dataSources) moves to the next entry
NextIndex(resp, i) == i + 1

\* wRes.rows[0] and uRes.rows[0] when the SELECT found no row
NO_WIDGET == [found |-> FALSE, db_id |-> <<>>, property |-> "", calculation |-> "",
              manual_value |-> NULL]
NO_USER == [found |-> FALSE, access_token |-> ""]

\* res.send: which page was sent and, on the card, the value shown
Page(name, v) == [page |-> name, value |-> v]

\* empty tables, no dashboard request
TablesInit ==
  /\ widgets = {}
  /\ users = {}
  /\ adds = <<>>

\* no call runs beside the one of pc
AppInit ==
  /\ calls = <<>>
  /\ frames = <<>>
  /\ TablesInit

\* no call has returned and no embed request is being served
ExtInit ==
  /\ journal = {}
  /\ epc = "idle"
  /\ widget = NO_WIDGET
  /\ user = NO_USER
  /\ finalNumber = PENDING
  /\ displayString = Page("none", PENDING)
  /\ AppInit

Init ==
  /\ pc = "idle"
  /\ ver = "fanout"
  /\ accessToken = ""
  /\ databaseId = 0
  /\ propertyName = ""
  /\ calculationType = ""
  /\ dataSources = <<>>
  /\ idx = 0
  /\ values = <<>>
  /\ result = PENDING
  /\ requests = <<>>
  /\ responses = <<>>
  /\ ExtInit

\* The call, up to its first await or its return.
Call(v, token, db, prop, calc) ==
  /\ pc = "idle"
  /\ ver' = v
  /\ accessToken' = token
  /\ databaseId' = db
  /\ propertyName' = prop
  /\ calculationType' = calc
  /\ IF Falsy(token)
     THEN /\ result' = NoTokenResult
          /\ pc' = "done"
          /\ UNCHANGED requests
     ELSE /\ result' = PENDING
          /\ IF v = "fanout"
             THEN /\ requests' = Append(requests, MetaRequest(db, token))
                  /\ pc' = "meta"
             ELSE /\ requests' = Append(requests, LegacyQueryRequest(db, token))
                  /\ pc' = "lquery"
  /\ dataSources' = IF ~Falsy(token) /\ v = "fanout" THEN <<>> ELSE dataSources
  /\ values' = IF ~Falsy(token) /\ v = "legacy" THEN FreshValues(values) ELSE values
  /\ UNCHANGED <<idx, responses, ext>>

\* The metadata GET settles (index.js 85-95), then the loop starts (97-102) or,
\* with nothing to iterate, the function returns (119).
MetaReturn(resp) ==
  /\ pc = "meta"
  /\ responses' = Append(responses, resp)
  /\ IF LookupAborts(resp)
     THEN /\ result' = MetaErrorResult
          /\ pc' = "done"
          /\ UNCHANGED <<dataSources, idx, values, requests>>
     ELSE IF resp.kind = "notlist"
     THEN /\ IF OuterCatches
             THEN result' = CriticalErrorResult /\ pc' = "done"
             ELSE result' = result /\ pc' = "raised"
          /\ values' = FreshValues(values)
          /\ UNCHANGED <<dataSources, idx, requests>>
     ELSE LET ds == ExpandSources(resp, databaseId)
              vals == FreshValues(values)
          IN /\ dataSources' = ds
             /\ values' = vals
             /\ IF ds = <<>>
                THEN /\ result' = Reduce(CalcOf(calculationType), vals)
                     /\ pc' = "done"
                     /\ UNCHANGED <<idx, requests>>
                ELSE /\ idx' = 1
                     /\ requests' = requests \o IssueOnLoopEntry(ds, accessToken)
                     /\ pc' = "query"
                     /\ UNCHANGED result
  /\ UNCHANGED <<ver, accessToken, databaseId, propertyName, calculationType, ext>>

\* The query of sub-source idx settles (index.js 102-116); then the next
\* sub-source is queried, or the values are reduced and returned (119-127).
QueryReturn(resp) ==
  /\ pc = "query"
  /\ responses' = Append(responses, resp)
  /\ LET vals == AfterSource(resp, TargetProp(propertyName), values)
     IN /\ values' = vals
        /\ IF LoopContinues(resp, idx, Len(dataSources))
           THEN /\ idx' = NextIndex(resp, idx)
                /\ requests' = Append(requests,
                                 QueryRequest(dataSources[idx'], accessToken))
                /\ UNCHANGED <<pc, result>>
           ELSE /\ result' = Reduce(CalcOf(calculationType), vals)
                /\ pc' = "done"
                /\ UNCHANGED <<idx, requests>>
  /\ UNCHANGED <<ver, accessToken, databaseId, propertyName, calculationType,
                 dataSources, ext>>

\* The legacy query settles (part_000 86-106), then the values are reduced.
LegacyQueryReturn(resp) ==
  /\ pc = "lquery"
  /\ responses' = Append(responses, resp)
  /\ LET vals == AfterLegacyQuery(resp, TargetProp(propertyName), values)
     IN /\ values' = vals
        /\ result' = Reduce(CalcOf(calculationType), vals)
        /\ pc' = "done"
  /\ UNCHANGED <<ver, accessToken, databaseId, propertyName, calculationType,
                 dataSources, idx, requests, ext>>

Next ==
  \/ \E v \in Versions, token \in Tokens, db \in DbIds,
        prop \in PropertyNames, calc \in Calculations :
       Call(v, token, db, prop, calc)
  \/ \E resp \in MetaResponses : MetaReturn(resp)
  \/ \E resp \in QueryResponses(responses) : QueryReturn(resp)
  \/ \E resp \in QueryResponses(responses) : LegacyQueryReturn(resp)

Spec == Init /\ [][Next]_vars

\* ------------------------------------------- one response, start to result
\* The resolver's pipeline on a single query response: the pages are read
\* (index.js 104-115 or part_000 88-103) and the values reduced.  The response
\* is drawn from every page shape the readers distinguish.
PageValues == {Num(0), Num(2), Num(-3)}

AllPages ==
  {PNumber(DEFAULT_PROPERTY, v) : v \in PageValues \cup {NULL, UNDEFINED}}
    \cup {PFormula(DEFAULT_PROPERTY, "number", v) : v \in {Num(0), Num(4), NULL}}
    \cup {PRollup(DEFAULT_PROPERTY, "number", v) : v \in {Num(5), NULL}}
    \cup {PFormula(DEFAULT_PROPERTY, "string", NULL),
          PFormula(DEFAULT_PROPERTY, "missing", NULL),
          PRollup(DEFAULT_PROPERTY, "array", NULL),
          PRollup(DEFAULT_PROPERTY, "missing", NULL),
          POther(DEFAULT_PROPERTY), PNumber("Amount", Num(3)),
          PEmpty, PNoProps}

PagePropertyNames == {"", DEFAULT_PROPERTY, "Amount"}

InitPage ==
  /\ pc = "page"
  /\ ver \in Versions
  /\ accessToken = "secret"
  /\ databaseId = 0
  /\ propertyName \in PagePropertyNames
  /\ calculationType \in Calculations
  /\ dataSources = <<0>>
  /\ idx = 1
  /\ values = <<>>
  /\ result = PENDING
  /\ requests = <<>>
  /\ responses \in {<<QueryResponse("ok", p)>> : p \in SeqsUpTo(AllPages, MaxPageRows)}
  /\ ExtInit

ApplyPage ==
  /\ pc = "page"
  /\ LET resp == responses[1]
         vals == IF ver = "fanout"
                 THEN AfterSource(resp, TargetProp(propertyName), values)
                 ELSE AfterLegacyQuery(resp, TargetProp(propertyName), values)
     IN /\ values' = vals
        /\ result' = Reduce(CalcOf(calculationType), vals)
  /\ pc' = "done"
  /\ UNCHANGED <<ver, accessToken, databaseId, propertyName, calculationType,
                 dataSources, idx, requests, responses, ext>>

NextPage == ApplyPage

SpecPage == InitPage /\ [][NextPage]_vars

\* ------------------------------------------------------ the reduction alone
ReduceValues == {Num(x) : x \in (-MaxNeg)..MaxVal}

InitReduce ==
  /\ pc = "reduce"
  /\ ver = "fanout"
  /\ accessToken = "secret"
  /\ databaseId = 0
  /\ propertyName = ""
  /\ calculationType \in Calculations
  /\ dataSources = <<>>
  /\ idx = 0
  /\ values \in SeqsUpTo(ReduceValues, MaxLen)
  /\ result = PENDING
  /\ requests = <<>>
  /\ responses = <<>>
  /\ ExtInit

ApplyReduce ==
  /\ pc = "reduce"
  /\ result' = Reduce(CalcOf(calculationType), values)
  /\ pc' = "done"
  /\ UNCHANGED <<ver, accessToken, databaseId, propertyName, calculationType,
                 dataSources, idx, values, requests, responses, ext>>

NextReduce == ApplyReduce

SpecReduce == InitReduce /\ [][NextReduce]_vars

\* ------------------------------------------- responses that signal more rows
\* The call as in Spec, against a remote whose query responses carry the
\* pagination fields of the list endpoint: has_more and next_cursor.
CursorResponse(kind, pages, more) ==
  [kind |-> kind, sources |-> <<>>, pages |-> pages,
   has_more |-> more, next_cursor |-> IF more THEN "cursor" ELSE ""]

CursorPages ==
  {PNumber(DEFAULT_PROPERTY, Num(2)), PNumber(DEFAULT_PROPERTY, Num(-1))}

CursorCalculations == {"sum", "count"}

CursorQueryResponses(resps) ==
  {CursorResponse("fail", <<>>, FALSE)}
    \cup {CursorResponse("ok", p, more) :
            p \in SeqsUpTo(CursorPages, MaxRows - RowsOf(resps)), more \in BOOLEAN}

NextCursor ==
  \/ \E v \in Versions, db \in DbIds, calc \in CursorCalculations :
       Call(v, "secret", db, "", calc)
  \/ \E resp \in MetaResponses : MetaReturn(resp)
  \/ \E resp \in CursorQueryResponses(responses) : QueryReturn(resp)
  \/ \E resp \in CursorQueryResponses(responses) : LegacyQueryReturn(resp)

SpecCursor == Init /\ [][NextCursor]_vars

\* ------------------------------------------------------ one call after another
\* The resolver is called again and again by the same process.  When a call
\* has returned, its arguments, the responses it was given and its result are
\* entered in the journal; what the call left in memory stays as it is.
CallRecord ==
  [ver |-> ver, accessToken |-> accessToken, databaseId |-> databaseId,
   propertyName |-> propertyName, calculationType |-> calculationType,
   responses |-> responses, result |-> result]

Return ==
  /\ pc = "done"
  /\ journal' = journal \cup {CallRecord}
  /\ pc' = "idle"
  /\ result' = PENDING
  /\ requests' = <<>>
  /\ responses' = <<>>
  /\ UNCHANGED <<ver, accessToken, databaseId, propertyName, calculationType,
                 dataSources, idx, values, epc, widget, user, finalNumber, app,
                 displayString>>

SeqCalculations == {"sum", "count"}

SeqMetaResponses == {MetaResponse("fail", <<>>), MetaResponse("absent", <<>>)}

SeqQueryResponses ==
  {QueryResponse("fail", <<>>),
   QueryResponse("ok", <<PNumber(DEFAULT_PROPERTY, Num(2))>>),
   QueryResponse("ok", <<PNumber(DEFAULT_PROPERTY, Num(2)),
                         PNumber(DEFAULT_PROPERTY, Num(-1))>>)}

NextSeq ==
  \/ \E db \in DbIds, calc \in SeqCalculations : Call("fanout", "secret", db, "", calc)
  \/ \E resp \in SeqMetaResponses : MetaReturn(resp)
  \/ \E resp \in SeqQueryResponses : QueryReturn(resp)
  \/ Return

SpecSeq == Init /\ [][NextSeq]_vars

\* ------------------------------------------------------------ the embed route
\* GET /embed/:id of index.js 635-657 (ver "fanout") and of part_000 659-681
\* (ver "legacy"): the widget and its owner are read, the resolver is called if
\* the widget has a db_id, and the card is sent.

\* a manual_value column holding the decimal text of the integer n
Text(n) == [t |-> "text", n |-> n, d |-> 1]
\* a manual_value column holding text that is not a number
WORDS == [t |-> "text", n |-> 0, d |-> 0]

\* num.toLocaleString(undefined, { minimumFractionDigits: 2,
\* maximumFractionDigits: 2 }): v rounded to hundredths, halves away from zero
Round2(v) ==
  LET h == (200 * Abs(v.n) + v.d) \div (2 * v.d)
  IN Quot(IF v.n < 0 THEN -h ELSE h, 100)

\* index.js 650-655: what the card shows for finalNumber v; a value that
\* isNaN accepts goes through parseFloat and toLocaleString, any other is
\* shown as it is
DisplayString(v) ==
  IF v.t = "text" THEN (IF v.d = 0 THEN v ELSE Round2(Num(v.n)))
  ELSE IF v.t = "number" THEN Round2(v)
  ELSE IF v.t \in {"Infinity", "undefined"} THEN v
  ELSE NAN

\* index.js 644: let finalNumber = widget.manual_value
\* part_000 668: let finalNumber = 0
InitialNumber(v, w) == IF v = "fanout" THEN w.manual_value ELSE Num(0)

\* index.js 647, part_000 671: if (agg !== null) finalNumber = agg
AfterResolve(agg, number) == IF agg # NULL THEN agg ELSE number

EmbedManualValues == {Text(7), WORDS}
EmbedCalculations == {"sum", "average"}

EmbedWidgets ==
  {[found |-> TRUE, db_id |-> db, property |-> "", calculation |-> calc,
    manual_value |-> m] :
     db \in {<<>>} \cup {<<id>> : id \in DbIds}, calc \in EmbedCalculations,
     m \in EmbedManualValues}

EmbedUsers == {[found |-> TRUE, access_token |-> token] : token \in Tokens}

EmbedMetaResponses ==
  {MetaResponse(k, <<>>) : k \in {"fail", "absent", "notlist"}}

EmbedQueryResponses ==
  {QueryResponse("fail", <<>>), QueryResponse("ok", <<>>),
   QueryResponse("ok", <<PNumber(DEFAULT_PROPERTY, Num(2))>>),
   QueryResponse("ok", <<PNumber(DEFAULT_PROPERTY, Num(2)),
                         PNumber(DEFAULT_PROPERTY, Num(-1))>>)}

\* The request, up to its response or to the call of the resolver.
EmbedStart(v, w, u) ==
  /\ epc = "idle"
  /\ pc = "idle"
  /\ ver' = v
  /\ widget' = w
  /\ IF ~w.found
     THEN /\ user' = NO_USER
          /\ displayString' = Page("Widget not found", PENDING)
          /\ epc' = "sent"
          /\ UNCHANGED finalNumber
     ELSE /\ user' = u
          /\ IF ~u.found
             THEN /\ displayString' = Page("Owner not found", PENDING)
                  /\ epc' = "sent"
                  /\ UNCHANGED finalNumber
             ELSE /\ finalNumber' = InitialNumber(v, w)
                  /\ IF w.db_id # <<>>
                     THEN /\ epc' = "calling"
                          /\ UNCHANGED displayString
                     ELSE /\ epc' = "sent"
                          /\ displayString' =
                               Page("card", DisplayString(InitialNumber(v, w)))
  /\ UNCHANGED <<pc, accessToken, databaseId, propertyName, calculationType,
                 dataSources, idx, values, result, requests, responses, journal,
                 app>>

\* index.js 646: the resolver is entered with the owner's token and the
\* widget's columns
EmbedCall ==
  /\ epc = "calling"
  /\ Call(ver, user.access_token, widget.db_id[1], widget.property,
          widget.calculation)

\* The resolver has returned: index.js 647-657.
EmbedFinish ==
  /\ epc = "calling"
  /\ pc = "done"
  /\ finalNumber' = AfterResolve(result, finalNumber)
  /\ displayString' = Page("card", DisplayString(AfterResolve(result, finalNumber)))
  /\ epc' = "sent"
  /\ UNCHANGED <<pc, ver, accessToken, databaseId, propertyName, calculationType,
                 dataSources, idx, values, result, requests, responses,
                 journal, widget, user, app>>

NextEmbed ==
  \/ \E v \in Versions, w \in EmbedWidgets \cup {NO_WIDGET},
        u \in EmbedUsers \cup {NO_USER} : EmbedStart(v, w, u)
  \/ EmbedCall
  \/ \E resp \in EmbedMetaResponses : MetaReturn(resp)
  \/ \E resp \in EmbedQueryResponses : QueryReturn(resp)
  \/ \E resp \in EmbedQueryResponses : LegacyQueryReturn(resp)
  \/ EmbedFinish

SpecEmbed == Init /\ [][NextEmbed]_vars

\* --------------------------------------------------- calls running side by side
\* Several calls of the fan-out resolver are in progress in the one process:
\* each is suspended at an await (index.js 86, 102) and resumes when its own
\* request settles, in any order.  calls[c] is call c: where it stands, its
\* arguments, its requests and responses; frames[Frame(c)] holds the arrays it
\* declares with let.
MaxCalls == 2

CallIds == 1..MaxCalls

\* the variables of the single call and of the embed request
single == <<pc, ver, accessToken, databaseId, propertyName, calculationType,
            dataSources, idx, values, result, requests, responses>>
embed == <<journal, epc, widget, user, finalNumber, displayString>>

\* faulty variant of Frame: dataSources and values are shared by all calls
SharedFrame(c) == 1

\* index.js 84, 97: let dataSources and let values are bindings of the
\* invocation that executes them
Frame(c) == c

ConcCalculations == {"sum", "count"}

ConcMetaResponses ==
  {MetaResponse("fail", <<>>), MetaResponse("absent", <<>>),
   MetaResponse("list", <<1, 2>>)}

ConcQueryResponses ==
  {QueryResponse("fail", <<>>),
   QueryResponse("ok", <<PNumber(DEFAULT_PROPERTY, Num(2))>>),
   QueryResponse("ok", <<PNumber(DEFAULT_PROPERTY, Num(-1))>>)}

IdleCall ==
  [pc |-> "idle", accessToken |-> "", databaseId |-> 0, propertyName |-> "",
   calculationType |-> "", idx |-> 0, result |-> PENDING,
   requests |-> <<>>, responses |-> <<>>]

InitConc ==
  /\ pc = "idle"
  /\ ver = "fanout"
  /\ accessToken = ""
  /\ databaseId = 0
  /\ propertyName = ""
  /\ calculationType = ""
  /\ dataSources = <<>>
  /\ idx = 0
  /\ values = <<>>
  /\ result = PENDING
  /\ requests = <<>>
  /\ responses = <<>>
  /\ journal = {}
  /\ epc = "idle"
  /\ widget = NO_WIDGET
  /\ user = NO_USER
  /\ finalNumber = PENDING
  /\ displayString = Page("none", PENDING)
  /\ calls = [c \in CallIds |-> IdleCall]
  /\ frames = [c \in CallIds |-> [dataSources |-> <<>>, values |-> <<>>]]
  /\ TablesInit

\* Call c, up to its first await (index.js 72-86).
ConcCall(c, token, db, prop, calc) ==
  /\ calls[c].pc = "idle"
  /\ ~Falsy(token)
  /\ calls' = [calls EXCEPT ![c] =
       [@ EXCEPT !.pc = "meta", !.accessToken = token, !.databaseId = db,
                 !.propertyName = prop, !.calculationType = calc,
                 !.requests = Append(@, MetaRequest(db, token))]]
  /\ frames' = [frames EXCEPT ![Frame(c)].dataSources = <<>>]
  /\ UNCHANGED <<single, embed, tables>>

\* The metadata GET of call c settles (index.js 85-102).
ConcMetaReturn(c, resp) ==
  /\ calls[c].pc = "meta"
  /\ IF LookupAborts(resp)
     THEN /\ calls' = [calls EXCEPT ![c] =
               [@ EXCEPT !.pc = "done", !.result = MetaErrorResult,
                         !.responses = Append(@, resp)]]
          /\ UNCHANGED frames
     ELSE LET ds == ExpandSources(resp, calls[c].databaseId)
              vals == FreshValues(frames[Frame(c)].values)
          IN /\ frames' = [frames EXCEPT ![Frame(c)] =
                             [dataSources |-> ds, values |-> vals]]
             /\ IF ds = <<>>
                THEN calls' = [calls EXCEPT ![c] =
                       [@ EXCEPT !.pc = "done",
                                 !.result = Reduce(CalcOf(calls[c].calculationType), vals),
                                 !.responses = Append(@, resp)]]
                ELSE calls' = [calls EXCEPT ![c] =
                       [@ EXCEPT !.pc = "query", !.idx = 1,
                                 !.requests = @ \o IssueOnLoopEntry(ds, calls[c].accessToken),
                                 !.responses = Append(@, resp)]]
  /\ UNCHANGED <<single, embed, tables>>

\* The query of sub-source idx of call c settles (index.js 102-127).
ConcQueryReturn(c, resp) ==
  /\ calls[c].pc = "query"
  /\ LET f == frames[Frame(c)]
         vals == AfterSource(resp, TargetProp(calls[c].propertyName), f.values)
     IN /\ frames' = [frames EXCEPT ![Frame(c)].values = vals]
        /\ IF LoopContinues(resp, calls[c].idx, Len(f.dataSources))
           THEN calls' = [calls EXCEPT ![c] =
                  [@ EXCEPT !.idx = NextIndex(resp, calls[c].idx),
                            !.requests = Append(@,
                               QueryRequest(f.dataSources[NextIndex(resp, calls[c].idx)],
                                            calls[c].accessToken)),
                            !.responses = Append(@, resp)]]
           ELSE calls' = [calls EXCEPT ![c] =
                  [@ EXCEPT !.pc = "done",
                            !.result = Reduce(CalcOf(calls[c].calculationType), vals),
                            !.responses = Append(@, resp)]]
  /\ UNCHANGED <<single, embed, tables>>

NextConc ==
  \/ \E c \in CallIds, db \in DbIds, calc \in ConcCalculations :
       ConcCall(c, "secret", db, "", calc)
  \/ \E c \in CallIds, resp \in ConcMetaResponses : ConcMetaReturn(c, resp)
  \/ \E c \in CallIds, resp \in ConcQueryResponses : ConcQueryReturn(c, resp)

SpecConc == InitConc /\ [][NextConc]_vars

\* ------------------------------------------------------ the dashboard routes
\* POST /add, /update and /delete and the OAuth callback, in the three
\* revisions of the application: ver "fanout" is src/index.js, "legacy" is
\* part_000 1-709, "first" is part_000 710-1021, which has neither users nor
\* sessions.
MaxWidgets == 4

\* part_000 622: if (widgetCount >= 3)
WIDGET_LIMIT == 3

AppVersions == Versions \cup {"first"}
UserIds == {1, 2}
\* req.session.userId of a request without a session
NO_SESSION == 0
AddIds == {1, 2}

SingleInit ==
  /\ pc = "idle"
  /\ accessToken = ""
  /\ databaseId = 0
  /\ propertyName = ""
  /\ calculationType = ""
  /\ dataSources = <<>>
  /\ idx = 0
  /\ values = <<>>
  /\ result = PENDING
  /\ requests = <<>>
  /\ responses = <<>>

EmbedInit ==
  /\ journal = {}
  /\ epc = "idle"
  /\ widget = NO_WIDGET
  /\ user = NO_USER
  /\ finalNumber = PENDING
  /\ displayString = Page("none", PENDING)

\* a row of widgets; the first revision has no user_id column
WidgetRow(id, u, db, m) ==
  [found |-> TRUE, id |-> id, user_id |-> u, db_id |-> db, property |-> "",
   calculation |-> "sum", manual_value |-> m]

UserRow(u, token) == [found |-> TRUE, id |-> u, access_token |-> token]

\* SELECT COUNT(*) FROM widgets WHERE user_id = $1
WidgetCount(u) == Cardinality({w \in widgets : w.user_id = u})

\* uuidv4(): an id no row has
UsedIds == {w.id : w \in widgets}
HasFreshId == \E i \in 1..MaxWidgets : i \notin UsedIds
FreshId == CHOOSE i \in 1..MaxWidgets :
             i \notin UsedIds /\ \A j \in 1..MaxWidgets : j \notin UsedIds => i <= j

\* index.js 64-69: requireAuth sends a request without a session user to
\* /login; the routes of the first revision are not guarded
Rejected(v, u) == v # "first" /\ u = NO_SESSION

\* the WHERE clause of UPDATE and DELETE: index.js 623, 630, part_000 647, 654
\* (id and user_id), part_000 955, 963 (id alone)
Matches(v, w, id, u) == w.id = id /\ (v = "first" \/ w.user_id = u)

\* INSERT INTO widgets: index.js 611-615, part_000 635-639, 942-946
Inserted(v, u) ==
  widgets \cup {WidgetRow(FreshId, IF v = "first" THEN NO_SESSION ELSE u,
                          <<>>, Text(7))}

IdleAdd == [pc |-> "idle", user |-> NO_SESSION, count |-> 0, reply |-> "none"]

\* POST /add up to its first query: in the legacy revision the count query
\* (part_000 619), in the others the INSERT, after which the request is done.
AddBegin(r, u) ==
  /\ adds[r].pc = "idle"
  /\ HasFreshId
  /\ IF Rejected(ver, u)
     THEN /\ adds' = [adds EXCEPT ![r] = [IdleAdd EXCEPT !.reply = "login"]]
          /\ UNCHANGED widgets
     ELSE IF ver = "legacy"
     THEN /\ adds' = [adds EXCEPT ![r] =
                        [pc |-> "counted", user |-> u, count |-> WidgetCount(u),
                         reply |-> "none"]]
          /\ UNCHANGED widgets
     ELSE /\ widgets' = Inserted(ver, u)
          /\ adds' = [adds EXCEPT ![r] = [IdleAdd EXCEPT !.reply = "redirect"]]
  /\ UNCHANGED <<single, ver, embed, calls, frames, users>>

\* POST /add of the legacy revision after the count (part_000 620-640)
AddFinish(r) ==
  /\ adds[r].pc = "counted"
  /\ HasFreshId
  /\ IF adds[r].count >= WIDGET_LIMIT
     THEN /\ adds' = [adds EXCEPT ![r] = [IdleAdd EXCEPT !.reply = "limit"]]
          /\ UNCHANGED widgets
     ELSE /\ widgets' = Inserted(ver, adds[r].user)
          /\ adds' = [adds EXCEPT ![r] = [IdleAdd EXCEPT !.reply = "redirect"]]
  /\ UNCHANGED <<single, ver, embed, calls, frames, users>>

\* POST /update: index.js 619-627, part_000 643-651 (which leaves
\* manual_value alone), part_000 951-960
Update(u, id, db, m) ==
  /\ widgets' =
       IF Rejected(ver, u) THEN widgets
       ELSE {IF Matches(ver, w, id, u)
             THEN [w EXCEPT !.db_id = db,
                            !.manual_value = IF ver = "legacy" THEN @ ELSE m]
             ELSE w : w \in widgets}
  /\ UNCHANGED <<single, ver, embed, calls, frames, users, adds>>

\* POST /delete: index.js 629-632, part_000 653-656, 962-965
Delete(u, id) ==
  /\ widgets' =
       IF Rejected(ver, u) THEN widgets
       ELSE {w \in widgets : ~Matches(ver, w, id, u)}
  /\ UNCHANGED <<single, ver, embed, calls, frames, users, adds>>

\* GET /auth/notion/callback, index.js 217-245: INSERT INTO users ... ON
\* CONFLICT (id) DO UPDATE SET access_token
Login(u, token) ==
  /\ ver # "first"
  /\ users' = {x \in users : x.id # u} \cup {UserRow(u, token)}
  /\ UNCHANGED <<single, ver, embed, calls, frames, widgets, adds>>

InitApp ==
  /\ SingleInit
  /\ EmbedInit
  /\ ver \in AppVersions
  /\ calls = <<>>
  /\ frames = <<>>
  /\ widgets = {}
  /\ users = {}
  /\ adds = [r \in AddIds |-> IdleAdd]

NextApp ==
  \/ \E r \in AddIds, u \in UserIds \cup {NO_SESSION} : AddBegin(r, u)
  \/ \E r \in AddIds : AddFinish(r)
  \/ \E u \in UserIds \cup {NO_SESSION}, id \in 1..MaxWidgets :
       Update(u, id, <<0>>, WORDS)
  \/ \E u \in UserIds \cup {NO_SESSION}, id \in 1..MaxWidgets : Delete(u, id)

SpecApp == InitApp /\ [][NextApp]_vars

\* ------------------------------------------- the resolver beside the database
\* An embed request reads its widget and the owner's token from the tables and
\* calls the resolver, while dashboard requests and the OAuth callback change
\* the tables.
FrameTokens == {"secret", "renewed"}

\* index.js 636-642: SELECT * FROM widgets WHERE id = $1, then SELECT
\* access_token FROM users WHERE id = widget.user_id
WidgetById(id) ==
  IF \E w \in widgets : w.id = id
  THEN CHOOSE w \in widgets : w.id = id ELSE NO_WIDGET

UserById(u) ==
  IF \E x \in users : x.id = u
  THEN CHOOSE x \in users : x.id = u ELSE NO_USER

EmbedLookup(id) ==
  LET w == WidgetById(id)
  IN EmbedStart(ver, w, IF w.found THEN UserById(w.user_id) ELSE NO_USER)

InitFrame ==
  /\ SingleInit
  /\ EmbedInit
  /\ ver \in Versions
  /\ calls = <<>>
  /\ frames = <<>>
  /\ widgets = {WidgetRow(1, 1, <<0>>, Text(7))}
  /\ users = {UserRow(1, "secret")}
  /\ adds = [r \in AddIds |-> IdleAdd]

NextFrame ==
  \/ \E id \in {1} : EmbedLookup(id)
  \/ EmbedCall
  \/ \E resp \in EmbedMetaResponses : MetaReturn(resp)
  \/ \E resp \in EmbedQueryResponses : QueryReturn(resp)
  \/ \E resp \in EmbedQueryResponses : LegacyQueryReturn(resp)
  \/ EmbedFinish
  \/ \E db \in {<<>>, <<0>>} : Update(1, 1, db, WORDS)
  \/ Delete(1, 1)
  \/ \E token \in FrameTokens : Login(1, token)

SpecFrame == InitFrame /\ [][NextFrame]_vars

\* --------------------------------------------- every kind, every outcome
\* The call as in Spec with a credential and the default property, for every
\* aggregation kind, against a remote whose every request is answered or
\* rejected.
KindPages ==
  {PNumber(DEFAULT_PROPERTY, Num(2)), PNumber(DEFAULT_PROPERTY, NULL)}

KindQueryResponses(resps) ==
  {QueryResponse("fail", <<>>), QueryResponse("noresults", <<>>)}
    \cup {QueryResponse("ok", p) : p \in SeqsUpTo(KindPages, MaxRows - RowsOf(resps))}

NextKinds ==
  \/ \E v \in Versions, db \in DbIds, calc \in Calculations :
       Call(v, "secret", db, "", calc)
  \/ \E resp \in MetaResponses : MetaReturn(resp)
  \/ \E resp \in KindQueryResponses(responses) : QueryReturn(resp)
  \/ \E resp \in KindQueryResponses(responses) : LegacyQueryReturn(resp)

SpecKinds == Init /\ [][NextKinds]_vars

\* ------------------------------------------ every request settles in the end
\* SpecKinds under the assumption that the remote leaves no request open for
\* ever: the awaited GET or POST is answered or rejected, after which the
\* function goes on.
SpecLive ==
  /\ SpecKinds
  /\ WF_vars(\E resp \in MetaResponses : MetaReturn(resp))
  /\ WF_vars(\E resp \in KindQueryResponses(responses) : QueryReturn(resp))
  /\ WF_vars(\E resp \in KindQueryResponses(responses) : LegacyQueryReturn(resp))

\* ===================================================================== claims
Done == pc = "done"
HasToken == ~Falsy(accessToken)

\* the outcome of the metadata GET of a fan-out call, once it has settled
MetaSettled == ver = "fanout" /\ HasToken /\ Len(responses) >= 1
MetaKind == responses[1].kind

\* the lookup failed: the try of index.js 85-91 raised, because the GET was
\* rejected (network failure, error status) or was answered with a null body
MetaFailed == MetaSettled /\ MetaKind \in {"fail", "nodata"}
\* the lookup was answered with a data_sources value that is truthy and
\* cannot be iterated
MetaNotIterable == MetaSettled /\ MetaKind = "notlist"
\* the GET was answered with a sub-source list or with none
MetaLookupSucceeded == MetaSettled /\ MetaKind \in {"absent", "list"}

\* the call reached the reduction of its value sequence
ReductionReached ==
  /\ Done
  /\ HasToken
  /\ ver = "fanout" => MetaLookupSucceeded

KnownCalculations == {"sum", "average", "count", "min", "max"}

\* the outcome of the query of sub-source i of a fan-out call
QueryOutcome(i) == responses[i + 1]

\* the values read from the sub-sources i..n whose query was answered with
\* rows, each response read on its own, in sub-source order
RECURSIVE SurvivorValues(_, _)
SurvivorValues(i, n) ==
  IF i > n THEN <<>>
  ELSE (IF QueryOutcome(i).kind = "ok"
        THEN FanoutPages(QueryOutcome(i).pages, TargetProp(propertyName), <<>>)
        ELSE <<>>)
       \o SurvivorValues(i + 1, n)

\* C1: in the fan-out resolver, when a credential is present and the metadata
\* lookup fails, the call returns null and the metadata GET is the only
\* request it ever sent.
C1_MetaFailureIsUnavailable ==
  MetaFailed =>
    /\ Done
    /\ result = NULL
    /\ requests = <<MetaRequest(databaseId, accessToken)>>

C1_Witness ==
  /\ Done
  /\ MetaFailed
  /\ MetaKind = "fail"
  /\ calculationType = "count"
  /\ result = NULL

\* C2: when the lookup returns a list of sub-sources, every sub-source of the
\* list is queried, in order, whichever queries were rejected, and the call
\* returns the aggregation of exactly the values of the answered sub-sources,
\* which is a number and never null.
C2_Isolation ==
  (Done /\ MetaSettled /\ MetaKind = "list") =>
    LET n == Len(responses[1].sources)
    IN /\ Len(requests) = n + 1
       /\ Len(responses) = n + 1
       /\ \A i \in 1..n :
            requests[i + 1] = QueryRequest(responses[1].sources[i], accessToken)
       /\ result = Reduce(CalcOf(calculationType), SurvivorValues(1, n))
       /\ result.t = "number"

C2_Witness ==
  /\ Done
  /\ MetaSettled
  /\ MetaKind = "list"
  /\ Len(responses) = 3
  /\ QueryOutcome(1).kind = "fail"
  /\ QueryOutcome(2).kind = "ok"
  /\ values = <<Num(2), Num(-1)>>
  /\ calculationType = "sum"
  /\ result = Num(1)

C4_EmptyIsZero ==
  (ReductionReached /\ values = <<>>) => result = Num(0)

C4_Witness ==
  /\ ReductionReached
  /\ values = <<>>
  /\ Len(responses) = 2
  /\ QueryOutcome(1).kind = "ok"
  /\ Len(QueryOutcome(1).pages) = 2
  /\ calculationType = "min"
  /\ result = Num(0)

\* the integers of a sequence of number values
IntsOf(vals) == [i \in 1..Len(vals) |-> vals[i].n]

\* the arithmetic sum of a sequence of integers, taken from its last element
RECURSIVE Total(_)
Total(xs) ==
  IF xs = <<>> THEN 0 ELSE xs[Len(xs)] + Total(SubSeq(xs, 1, Len(xs) - 1))

\* C5: for a non-empty sequence of integer values the call returns their
\* arithmetic sum for sum, their number for count, the smallest and the largest
\* element for min and max, and for average the exact quotient sum / length,
\* not truncated: <<2, 4, 6>> gives 12, 3, 2, 6 and 4, <<1, 2>> averages to 3/2.
C5_Reduction ==
  (Done /\ values # <<>>) =>
    LET xs == IntsOf(values)
        k == Len(values)
        c == CalcOf(calculationType)
    IN /\ c \in KnownCalculations => result.t = "number" /\ result.d > 0
       /\ c = "sum" => result = Num(Total(xs))
       /\ c = "count" => result = Num(k)
       /\ c = "min" =>
            /\ result.d = 1
            /\ \E i \in 1..k : xs[i] = result.n
            /\ \A i \in 1..k : result.n <= xs[i]
       /\ c = "max" =>
            /\ result.d = 1
            /\ \E i \in 1..k : xs[i] = result.n
            /\ \A i \in 1..k : result.n >= xs[i]
       /\ c = "average" => result.n * k = Total(xs) * result.d
       /\ xs = <<2, 4, 6>> =>
            result = (CASE c = "sum" -> Num(12)
                        [] c = "count" -> Num(3)
                        [] c = "min" -> Num(2)
                        [] c = "max" -> Num(6)
                        [] c = "average" -> Num(4)
                        [] OTHER -> Num(0))

C5_Witness ==
  /\ Done
  /\ values = <<Num(1), Num(2)>>
  /\ calculationType = "average"
  /\ result = [t |-> "number", n |-> 3, d |-> 2]

\* C6: with a credential and a lookup that succeeded (it gave a sub-source
\* list or none), an aggregation kind that is none of sum, average, count,
\* min, max makes the call return the number 0 for every value sequence,
\* empty or not.
C6_UnknownKindIsZero ==
  (ReductionReached /\ CalcOf(calculationType) \notin KnownCalculations)
    => result = Num(0)

C6_Witness ==
  /\ ReductionReached
  /\ ver = "fanout"
  /\ calculationType = "median"
  /\ Len(values) = 2
  /\ result = Num(0)

\* C10: without a credential the call returns the number 0 at once: it sends
\* no request, neither the metadata GET nor a query, whatever the other
\* arguments are.
C10_NoCredentialIsZero ==
  (pc # "idle" /\ ~HasToken) =>
    /\ Done
    /\ result = Num(0)
    /\ requests = <<>>
    /\ responses = <<>>

C10_Witness ==
  /\ Done
  /\ ~HasToken
  /\ ver = "legacy"
  /\ propertyName = "Amount"
  /\ calculationType = "max"
  /\ result = Num(0)

\* the pages of the single response of the page-level specification
Pages == responses[1].pages

\* the page has all the fields its property type calls for
WellFormed(page) ==
  /\ page.hasProps
  /\ page.inner # "missing"
  /\ page.num # UNDEFINED

\* the target property is a number, a formula with a number result or a
\* rollup with a number result
NumericKind(page, targetProp) ==
  /\ HasProp(page, targetProp)
  /\ \/ page.type = "number"
     \/ page.type \in {"formula", "rollup"} /\ page.inner = "number"

RECURSIVE QualifyingValues(_, _)
QualifyingValues(pages, targetProp) ==
  IF pages = <<>> THEN <<>>
  ELSE (IF NumericKind(Head(pages), targetProp) /\ Head(pages).num # NULL
        THEN <<Head(pages).num>> ELSE <<>>)
       \o QualifyingValues(Tail(pages), targetProp)

\* C7: of the rows of a response, exactly those whose target property is
\* present, of kind number, formula-number or rollup-number, and not null
\* contribute a value, one each and in row order; every other row contributes
\* nothing and leaves the contributions of the other rows as they are.
C7_ExtractionPerRow ==
  (Done /\ \A i \in 1..Len(Pages) : WellFormed(Pages[i])) =>
    values = QualifyingValues(Pages, TargetProp(propertyName))

RollupNumber(page, targetProp) ==
  /\ HasProp(page, targetProp)
  /\ page.type = "rollup"
  /\ page.inner = "number"
  /\ page.num.t = "number"

\* C8: a row whose target property is a rollup with a number result that is
\* not null contributes that number, in the fan-out as in the legacy resolver.
C8_RollupNumberContributes ==
  (Done /\ \A i \in 1..Len(Pages) : RollupNumber(Pages[i], TargetProp(propertyName)))
    => values = [i \in 1..Len(Pages) |-> Pages[i].num]

\* the target property is a number or a formula-number whose value is v
NumberRow(page, targetProp, v) ==
  /\ HasProp(page, targetProp)
  /\ \/ page.type = "number"
     \/ page.type = "formula" /\ page.inner = "number"
  /\ page.num = v

RECURSIVE WithoutNullRows(_, _)
WithoutNullRows(pages, targetProp) ==
  IF pages = <<>> THEN <<>>
  ELSE (IF NumberRow(Head(pages), targetProp, NULL) THEN <<>> ELSE <<Head(pages)>>)
       \o WithoutNullRows(Tail(pages), targetProp)

\* what the resolver v makes of one response holding pages
ValuesOfResponse(v, pages, targetProp) ==
  IF v = "fanout" THEN FanoutPages(pages, targetProp, <<>>)
  ELSE LegacyPages(pages, targetProp, <<>>)

\* C9: a number or formula-number row whose value is null is skipped, not
\* counted as 0: values and result are those of the same response without
\* its null rows, so the row adds nothing to count, average, min or max; a row
\* whose value is the number 0 is a value like any other.
C9_NullSkippedZeroCounted ==
  Done =>
    LET t == TargetProp(propertyName)
        kept == WithoutNullRows(Pages, t)
    IN /\ values = ValuesOfResponse(ver, kept, t)
       /\ result = Reduce(CalcOf(calculationType), ValuesOfResponse(ver, kept, t))
       /\ Len(values) <= Len(kept)
       /\ (\A i \in 1..Len(Pages) : NumberRow(Pages[i], t, Num(0))) =>
            /\ values = [i \in 1..Len(Pages) |-> Num(0)]
            /\ CalcOf(calculationType) = "count" => result = Num(Len(Pages))

C9_Witness ==
  /\ Done
  /\ ver = "fanout"
  /\ Pages = <<PNumber(DEFAULT_PROPERTY, NULL), PNumber(DEFAULT_PROPERTY, Num(-3))>>
  /\ calculationType = "max"
  /\ result = Num(-3)

\* the lookup was answered without a sub-source list, or with an empty one
NoSubSourceListed ==
  MetaSettled /\ (MetaKind = "absent" \/ (MetaKind = "list" /\ responses[1].sources = <<>>))

\* C11: when the lookup succeeds and data_sources is absent or an empty list,
\* the source id itself is the sole sub-source: the call sends exactly one
\* query, to /data_sources/{sourceId}/query, and returns the aggregation of
\* what that query yields.
C11_FallbackToSourceId ==
  (Done /\ NoSubSourceListed) =>
    /\ requests = <<MetaRequest(databaseId, accessToken),
                    QueryRequest(databaseId, accessToken)>>
    /\ Len(responses) = 2
    /\ result = Reduce(CalcOf(calculationType), SurvivorValues(1, 1))

\* the half of C11 the code keeps: data_sources absent
C11_AbsentFallsBack ==
  (Done /\ MetaSettled /\ MetaKind = "absent") =>
    /\ requests = <<MetaRequest(databaseId, accessToken),
                    QueryRequest(databaseId, accessToken)>>
    /\ result = Reduce(CalcOf(calculationType), SurvivorValues(1, 1))

\* the call sent its metadata GET first and the GET was answered with a
\* sub-source list or with none
LookupCameFirst ==
  /\ Len(requests) >= 1
  /\ requests[1] = MetaRequest(databaseId, accessToken)
  /\ Len(responses) >= 1
  /\ responses[1].kind \in {"absent", "list"}

\* C12, as stated for every execution of resolve: a query request is only
\* ever sent by a call whose metadata lookup has already succeeded.
C12_NoQueryWithoutLookup ==
  \A j \in 1..Len(requests) :
    requests[j].method = "POST" => (j >= 2 /\ LookupCameFirst)

\* C12, amended: a sub-source query (POST /data_sources/{id}/query) is only
\* ever sent by a call whose metadata lookup has already succeeded, and a call
\* whose lookup did not succeed sends nothing but the GET; the legacy resolver
\* sends no sub-source query and no GET, only its one query to
\* /databases/{id}/query.
C12_NoSubSourceQueryWithoutLookup ==
  /\ \A j \in 1..Len(requests) :
       requests[j].path = "data_sources/query" =>
         (ver = "fanout" /\ j >= 2 /\ LookupCameFirst)
  /\ (MetaSettled /\ ~MetaLookupSucceeded) =>
       requests = <<MetaRequest(databaseId, accessToken)>>
  /\ (ver = "fanout" /\ pc = "meta") =>
       requests = <<MetaRequest(databaseId, accessToken)>>
  /\ ver = "legacy" =>
       \A j \in 1..Len(requests) : requests[j] = LegacyQueryRequest(databaseId, accessToken)

C12_Witness ==
  /\ pc = "query"
  /\ MetaKind = "list"
  /\ Len(responses) = 1
  /\ requests = <<MetaRequest(databaseId, accessToken), QueryRequest(1, accessToken)>>

\* C13: within one call every remote request is attempted exactly once: no
\* request is sent twice, whatever its outcome; there is at most one metadata
\* GET; a returned fan-out call whose lookup succeeded with n sub-sources to
\* iterate has sent exactly 1 + n requests, the GET and one query per
\* sub-source in list order, and one whose lookup did not succeed exactly 1.
C13_EveryRequestOnce ==
  /\ \A i, j \in 1..Len(requests) : requests[i] = requests[j] => i = j
  /\ Cardinality({j \in 1..Len(requests) : requests[j].method = "GET"}) <= 1
  /\ Len(responses) <= Len(requests)
  /\ (Done /\ MetaSettled) =>
       IF MetaLookupSucceeded
       THEN /\ Len(requests) = 1 + Len(dataSources)
            /\ Len(responses) = 1 + Len(dataSources)
            /\ dataSources = ExpandSources(responses[1], databaseId)
            /\ \A i \in 1..Len(dataSources) :
                 requests[i + 1] = QueryRequest(dataSources[i], accessToken)
       ELSE Len(requests) = 1 /\ Len(responses) = 1

C13_Witness ==
  /\ Done
  /\ MetaLookupSucceeded
  /\ Len(dataSources) = 2
  /\ QueryOutcome(1).kind = "fail"
  /\ QueryOutcome(2).kind = "ok"
  /\ Len(requests) = 3

\* the query requests the call has sent for the source or sub-source id
QueriesOf(id) ==
  {j \in 1..Len(requests) : requests[j].method = "POST" /\ requests[j].id = id}

\* some query of the call was answered with has_more
MoreRowsSignalled ==
  \E j \in 1..Len(responses) : responses[j].kind = "ok" /\ responses[j].has_more

\* C14: every query asks for a page of 100 rows and is the only query its
\* sub-source ever gets, whether or not the response signals more rows; a
\* returned call has sent one query per sub-source and its values are those
\* of the rows of these first pages.
C14_FirstPageOnly ==
  /\ \A j \in 1..Len(requests) :
       requests[j].method = "POST" =>
         /\ requests[j].page_size = 100
         /\ Cardinality(QueriesOf(requests[j].id)) = 1
  /\ (Done /\ ver = "legacy") =>
       /\ requests = <<LegacyQueryRequest(databaseId, accessToken)>>
       /\ values = AfterLegacyQuery(responses[1], TargetProp(propertyName), <<>>)
  /\ (Done /\ MetaLookupSucceeded) =>
       /\ Len(requests) = 1 + Len(dataSources)
       /\ values = SurvivorValues(1, Len(dataSources))

C14_Witness ==
  /\ Done
  /\ MetaLookupSucceeded
  /\ Len(dataSources) = 2
  /\ QueryOutcome(1).kind = "ok"
  /\ QueryOutcome(1).has_more
  /\ QueryOutcome(1).pages = <<PNumber(DEFAULT_PROPERTY, Num(2))>>
  /\ QueryOutcome(2).kind = "ok"
  /\ ~QueryOutcome(2).has_more
  /\ Len(requests) = 3
  /\ calculationType = "sum"
  /\ result = Num(1)

\* the rows of a response the fan-out reader gets through: those before the
\* first row whose reading raises
RECURSIVE RowsRead(_, _)
RowsRead(pages, targetProp) ==
  IF pages = <<>> \/ FanoutThrows(Head(pages), targetProp) THEN <<>>
  ELSE <<Head(pages)>> \o RowsRead(Tail(pages), targetProp)

\* what the rows extract, each row on its own, laid out in row order
RECURSIVE InRowOrder(_, _)
InRowOrder(rows, targetProp) ==
  IF rows = <<>> THEN <<>>
  ELSE Push(<<>>, FanoutNum(Head(rows), targetProp))
       \o InRowOrder(Tail(rows), targetProp)

\* the same for the answered sub-sources i..n, laid out in sub-source order
RECURSIVE InSourceOrder(_, _)
InSourceOrder(i, n) ==
  IF i > n THEN <<>>
  ELSE (IF QueryOutcome(i).kind = "ok"
        THEN InRowOrder(RowsRead(QueryOutcome(i).pages, TargetProp(propertyName)),
                        TargetProp(propertyName))
        ELSE <<>>)
       \o InSourceOrder(i + 1, n)

\* C15: at every point of a fan-out call, the value sequence is the values
\* extracted from the rows read so far, one per extracting row, in sub-source
\* iteration order and, within a sub-source, in the row order of its response:
\* merging duplicates, drops and reorders nothing.
C15_MergedInOrder ==
  (ver = "fanout" /\ MetaLookupSucceeded) =>
    values = InSourceOrder(1, Len(responses) - 1)

C15_Witness ==
  /\ Done
  /\ MetaLookupSucceeded
  /\ Len(dataSources) = 2
  /\ QueryOutcome(1).kind = "ok"
  /\ QueryOutcome(1).pages = <<PNumber(DEFAULT_PROPERTY, Num(-1)),
                               PNumber(DEFAULT_PROPERTY, Num(2))>>
  /\ QueryOutcome(2).kind = "ok"
  /\ QueryOutcome(2).pages = <<PNumber(DEFAULT_PROPERTY, Num(-1))>>
  /\ values = <<Num(-1), Num(2), Num(-1)>>

\* two returned calls had the same arguments and were given the same responses
SameCall(a, b) ==
  /\ a.ver = b.ver
  /\ a.accessToken = b.accessToken
  /\ a.databaseId = b.databaseId
  /\ a.propertyName = b.propertyName
  /\ a.calculationType = b.calculationType
  /\ a.responses = b.responses

\* C16: any two calls with the same arguments that were given the same
\* responses returned the same result, whichever calls returned before them or
\* between them: nothing a call leaves behind reaches a later call.
C16_Idempotent ==
  /\ \A a, b \in journal : SameCall(a, b) => a.result = b.result
  /\ Done => \A a \in journal : SameCall(a, CallRecord) => a.result = result

C16_Witness ==
  /\ Done
  /\ calculationType = "sum"
  /\ result = Num(1)
  /\ CallRecord \in journal
  /\ \E b \in journal : b.calculationType = "count" /\ b.result = Num(1)
  /\ \E b \in journal : b.result = NULL
  /\ values = <<Num(2), Num(-1)>>

\* the embed request was answered with the card of a widget
CardSent == epc = "sent" /\ displayString.page = "card"

\* the card shows the value v
Shows(v) == finalNumber = v /\ displayString = Page("card", DisplayString(v))

\* what C17 asks of a card
FallsBackToManualValue ==
  IF widget.db_id = <<>>
  THEN /\ Shows(widget.manual_value)
       /\ pc = "idle"
       /\ requests = <<>>
  ELSE /\ Done
       /\ IF result = NULL THEN Shows(widget.manual_value) ELSE Shows(result)

\* C17: the card of a widget without a db_id shows the widget's manual_value
\* and no resolver call and no remote request was made for it; the card of a
\* widget with a db_id shows manual_value when the resolver returned null and
\* the resolver's number, 0 included, otherwise.
C17_ManualValueFallback == CardSent => FallsBackToManualValue

\* the renderer of index.js 635-657 does so
C17_CurrentRendererFallsBack == (CardSent /\ ver = "fanout") => FallsBackToManualValue

\* the values a JavaScript number can be
IsJsNumber(v) == v.t \in {"number", "NaN", "Infinity"}

\* C18: whatever the remote answers (rejected requests, bodies without data,
\* without results or with rows that cannot be read, a data_sources value that
\* cannot be iterated), the call never ends by raising: it is waiting for a
\* response or it has returned, and what it returned is a number or null.
C18_NeverRaises ==
  /\ pc \in {"idle", "meta", "query", "lquery", "done"}
  /\ pc \in {"meta", "query", "lquery"} => Len(requests) = Len(responses) + 1
  /\ Done => (result = NULL \/ IsJsNumber(result))

C18_Witness ==
  /\ Done
  /\ MetaNotIterable
  /\ propertyName = "Amount"
  /\ calculationType = "average"
  /\ requests = <<MetaRequest(databaseId, accessToken)>>
  /\ result = NULL

\* the target property is present but lacks the inner object its type calls
\* for: a formula without formula, a rollup without rollup
MalformedRow(page, targetProp) ==
  /\ HasProp(page, targetProp)
  /\ page.type \in {"formula", "rollup"}
  /\ page.inner = "missing"

RECURSIVE WithoutMalformedRows(_, _)
WithoutMalformedRows(pages, targetProp) ==
  IF pages = <<>> THEN <<>>
  ELSE (IF MalformedRow(Head(pages), targetProp) THEN <<>> ELSE <<Head(pages)>>)
       \o WithoutMalformedRows(Tail(pages), targetProp)

\* C19: a row whose target property is present but malformed is skipped and
\* nothing else: the values and the result of a response are those of the
\* same response without its malformed rows, so the rows before and after a
\* malformed row contribute as if it were not there, and the result is not
\* null.
C19_MalformedRowSkippedAlone ==
  Done =>
    LET t == TargetProp(propertyName)
        kept == WithoutMalformedRows(Pages, t)
    IN /\ values = ValuesOfResponse(ver, kept, t)
       /\ result = Reduce(CalcOf(calculationType), ValuesOfResponse(ver, kept, t))
       /\ result # NULL

\* the part of C19 the code keeps: the rows before a malformed row have
\* contributed, and the result is not null
C19_RowsBeforeKept ==
  Done =>
    /\ result # NULL
    /\ \E k \in 0..Len(Pages) :
         /\ \A i \in 1..k : ~MalformedRow(Pages[i], TargetProp(propertyName))
                            \/ (ver = "fanout" /\ Pages[i].type = "rollup")
         /\ values = ValuesOfResponse(ver, SubSeq(Pages, 1, k), TargetProp(propertyName))

\* the requests of the call that have been sent and not yet answered
InFlight == Len(requests) - Len(responses)

\* C20: at most one request of a call is in flight at any time: the query of
\* a sub-source is sent only when every request before it, the lookup and the
\* queries of the preceding sub-sources, has been answered or rejected; while
\* the call waits exactly one request is out, and none once it has returned.
C20_OneRequestInFlight ==
  /\ InFlight \in {0, 1}
  /\ pc \in {"meta", "query", "lquery"} => InFlight = 1
  /\ pc \in {"idle", "done"} => InFlight = 0
  /\ pc = "query" => Len(requests) = idx + 1

C20_Witness ==
  /\ pc = "query"
  /\ Len(dataSources) = 2
  /\ idx = 2
  /\ QueryOutcome(1).kind = "noresults"
  /\ requests[3] = QueryRequest(2, accessToken)
  /\ InFlight = 1

\* the values a call alone extracts from the query responses resps
RECURSIVE AloneValues(_, _)
AloneValues(resps, targetProp) ==
  IF resps = <<>> THEN <<>>
  ELSE AfterSource(Head(resps), targetProp, <<>>)
       \o AloneValues(Tail(resps), targetProp)

\* what a call returns when it runs alone with the arguments of c and is
\* given the responses c was given
AloneResult(c) ==
  IF c.responses[1].kind \in {"fail", "nodata"} THEN NULL
  ELSE Reduce(CalcOf(c.calculationType),
              AloneValues(Tail(c.responses), TargetProp(c.propertyName)))

\* C21: whatever the order in which the awaits of the calls in progress
\* resume, every call that has returned has returned what it returns alone
\* when given the same responses, and has sent the requests it sends alone.
C21_CallsDoNotInterfere ==
  \A c \in CallIds :
    calls[c].pc = "done" =>
      /\ calls[c].result = AloneResult(calls[c])
      /\ Len(calls[c].requests) = Len(calls[c].responses)

C21_Witness ==
  /\ calls[1].pc = "done"
  /\ calls[2].pc = "query"
  /\ Len(calls[2].responses) = 2
  /\ Len(calls[1].responses) = 3
  /\ calls[1].calculationType = "sum"
  /\ calls[1].result = Num(1)
  /\ frames[2].values = <<Num(2)>>

\* the step is one of the resolver: the call starts, resumes or returns
ResolverStep ==
  <<pc, result, requests, responses, values, dataSources, idx>>' #
  <<pc, result, requests, responses, values, dataSources, idx>>

\* the requests the resolver may send with the credential token
ReadOnlyRequests(token) ==
  {MetaRequest(databaseId', token), LegacyQueryRequest(databaseId', token)}
    \cup {[method |-> "POST", path |-> "data_sources/query", id |-> src,
           bearer |-> token, page_size |-> 100] : src \in DbIds \cup 1..MaxSources}

\* C22: a step of the resolver leaves the tables users and widgets as they
\* are, and with them the stored credential, and keeps the credential it was
\* given; all it does to the outside is to send at most one request, the
\* metadata GET or a query POST, with that credential as bearer token.
C22_ReadOnly ==
  [][ResolverStep =>
       /\ widgets' = widgets
       /\ users' = users
       /\ pc # "idle" => accessToken' = accessToken
       /\ \/ requests' = requests
          \/ \E r \in ReadOnlyRequests(accessToken') :
               /\ ~Falsy(r.bearer)
               /\ requests' = Append(requests, r)]_vars

C22_Witness ==
  /\ Done
  /\ ver = "fanout"
  /\ Len(requests) = 2
  /\ accessToken = "secret"
  /\ users = {UserRow(1, "renewed")}
  /\ widgets = {}
  /\ result = Num(1)

\* what a call with property name p and aggregation kind k returns when it is
\* given the response the call of the state was given
ResultWith(p, k) == Reduce(k, ValuesOfResponse(ver, Pages, p))

\* C23: a call without a property name returns what the call with
\* "WidgetValue" returns, and a call without an aggregation kind returns what
\* the call with "sum" returns, on every response.
C23_Defaults ==
  Done =>
    /\ propertyName = "" =>
         /\ values = ValuesOfResponse(ver, Pages, "WidgetValue")
         /\ result = ResultWith("WidgetValue", CalcOf(calculationType))
    /\ calculationType = "" =>
         /\ result = Reduce("sum", values)
         /\ result = ResultWith(TargetProp(propertyName), "sum")

C23_Witness ==
  /\ Done
  /\ ver = "fanout"
  /\ propertyName = ""
  /\ calculationType = ""
  /\ Pages = <<PNumber(DEFAULT_PROPERTY, Num(2)), PNumber(DEFAULT_PROPERTY, Num(-3))>>
  /\ result = Num(-1)

\* reading the rows of the response raised: some row cannot be read by the
\* resolver of the state
ReadingRaised ==
  \E i \in 1..Len(Pages) :
    IF ver = "fanout"
    THEN FanoutThrows(Pages[i], TargetProp(propertyName))
    ELSE /\ ~LegacySkips(Pages[i], TargetProp(propertyName))
         /\ LegacyThrows(Pages[i], TargetProp(propertyName))

\* C24: a sub-source contributes nothing when an exception is raised while
\* the rows of its response are read: the value sequence holds no value of the
\* rows read before the exception.
C24_FailedSourceContributesNothing ==
  (Done /\ ReadingRaised) => values = <<>>

\* C25: when the metadata lookup of a fan-out call succeeded and the query of
\* every sub-source was rejected, the call returns the number 0 whatever the
\* aggregation kind; a legacy call whose query was rejected returns 0 too.
EveryQueryFailed ==
  IF ver = "fanout"
  THEN /\ MetaLookupSucceeded
       /\ Len(responses) = 1 + Len(dataSources)
       /\ \A i \in 1..Len(dataSources) : QueryOutcome(i).kind = "fail"
  ELSE /\ HasToken
       /\ Len(responses) = 1
       /\ responses[1].kind = "fail"

C25_AllQueriesFailIsZero ==
  (Done /\ EveryQueryFailed) => result = Num(0)

C25_Witness ==
  /\ Done
  /\ EveryQueryFailed
  /\ ver = "fanout"
  /\ Len(dataSources) = 2
  /\ calculationType = "average"
  /\ result = Num(0)

\* C26: every element of the value sequence is a number, also after a row
\* of kind number or formula-number whose numeric field is missing, and the
\* returned result is a number or unavailable, never undefined or NaN.
C26_OnlyNumbersAppended ==
  /\ AllNumbers(values)
  /\ Done => (result = NULL \/ result.t = "number")

\* C27: in the revision that has the widget limit (part_000 615-641), no
\* user owns more than WIDGET_LIMIT widgets, whatever the order in which the
\* count queries and the inserts of the /add requests are answered.
C27_WidgetLimit ==
  ver = "legacy" => \A u \in UserIds : WidgetCount(u) <= WIDGET_LIMIT

\* C28: an /update or /delete request changes or removes a stored widget
\* only if the request has a session user and that user is the widget's
\* owner; every other such request leaves the widgets as they were.
Sessions == UserIds \cup {NO_SESSION}

\* the stored widgets that a step changed or removed
Touched == {w \in widgets : w \notin widgets'}

C28_Ownership ==
  [][\A u \in Sessions, id \in 1..MaxWidgets :
       (Update(u, id, <<0>>, WORDS) \/ Delete(u, id)) =>
         \A w \in Touched : u # NO_SESSION /\ w.user_id = u]_vars

\* C29: when the lookup named no sub-source and the one query of the call is
\* answered with some rows, the call returns what the other resolver returns
\* for the same property name, aggregation kind and rows.
OtherResolver == IF ver = "fanout" THEN "legacy" ELSE "fanout"

C29_SameAsLegacy ==
  (Done /\ dataSources = <<databaseId>>) =>
    result = Reduce(CalcOf(calculationType),
                    ValuesOfResponse(OtherResolver, responses[1].pages,
                                     TargetProp(propertyName)))

\* C30: when no request stays open for ever, a call that waits for a response
\* returns in the end; all along, the loop has been entered at most once for
\* each sub-source, each of them was sent at most one query, and no more
\* values were pushed than rows were received.
Waiting == pc \in {"meta", "query", "lquery"}

LoopBounded ==
  /\ idx <= Len(dataSources)
  /\ Len(requests) <= 1 + Len(dataSources)
  /\ Len(values) <= RowsOf(responses)

C30_Terminates == []LoopBounded /\ (Waiting ~> Done)

C30_Witness ==
  /\ Done
  /\ ver = "fanout"
  /\ Len(dataSources) = 2
  /\ idx = 2
  /\ Len(responses) = 3
  /\ Len(values) >= 1

====
